---- MODULE Spec2Model ----
(***************************************************************************)
(* The chatbot HTTP router of AgentTerm (src/app/routers/chatbot_router.py) *)
(* with the conversational agent it drives                                  *)
(* (src/app/agents/BasicChatbotAgent.py): the session table                 *)
(* chatbot_instances, the request handlers and the idle-session reaper.     *)
(* Handlers are coroutines on one event loop: a handler runs atomically     *)
(* from one await to the next, so each action below is the code between     *)
(* two suspension points.                                                   *)
(***************************************************************************)
EXTENDS Integers, Sequences, FiniteSets, TLC

\* ------------------------------------------------------------- constants
INACTIVITY_THRESHOLD == 3600
SWEEP_SLEEP == 300
ERROR_SLEEP == 300

\* ---------------------------------------------------------------- bounds
MaxAgents == 2
MaxChats == 2
MaxTime == 3601

\* Passes of the reaper the timed runs follow, and the time they span.
MaxPasses == 14
Horizon == MaxPasses * SWEEP_SLEEP

\* Amounts of time that pass between two steps of the timed runs.
Steps == {SWEEP_SLEEP}

\* Clock advances the environment may make between two steps.
Ticks == {3600, 3601}

\* Identifiers a caller may invent, and the values uuid.uuid4() may return.
ClientIds == {"c1"}
UuidSeq == <<"u1", "u2">>
UuidPool == {UuidSeq[i] : i \in DOMAIN UuidSeq}
Ids == ClientIds \cup UuidPool
None == "None"

Agents == 1..MaxAgents

VARIABLES
    chatbot_instances,  \* client_id -> <<chatbot, last_activity>>
    messages,           \* chatbot -> its message history (BasicChatbotAgent.messages)
    life,               \* chatbot -> "unborn" | "live" | "removed" | "evicted"
    issued,             \* identifiers uuid.uuid4() has returned so far
    inflight,           \* chat requests suspended on the model call; `before` is a
                        \* history field: the entry's last_activity when the
                        \* request arrived, -1 if the request made the entry
    nchat,              \* chat requests received so far
    now,                \* time.time()
    wake,               \* time at which the reaper's sleep ends
    cleanup_task,       \* the reaper task: where it is or was last suspended (pc),
                        \* whether cancel() was called and is not yet delivered,
                        \* and how it ended (done: "no" while it has not)
    lifespan,           \* "startup" | "serving" | "awaiting" | "stopped" | "error"
    response,           \* what the handler that completed last returned
    cli                 \* the command-line program: its inputs, where it is (pc)
                        \* and what it has done so far; NoRun in the service

vars == <<chatbot_instances, messages, life, issued, inflight, nchat, now, wake,
          cleanup_task, lifespan, response, cli>>

\* ------------------------------------------------------------- helpers
Chatbot(entry) == entry[1]
LastActivity(entry) == entry[2]

Born == {a \in Agents : life[a] # "unborn"}

\* Mutant: the agent built first is handed out again to every later session.
NewChatbot_Shared ==
    IF Born = {} THEN Cardinality(Born) + 1 ELSE CHOOSE a \in Born : \A b \in Born : a <= b

\* BasicChatbotAgent(): the next object the allocator hands out.
NewChatbot == Cardinality(Born) + 1

UserMsg(n) == <<"user", n>>
ModelMsg(n) == <<"model", n>>

\* response.all_messages(): the history handed to the run plus this exchange.
all_messages(message_history, n) == message_history \o <<UserMsg(n), ModelMsg(n)>>

save_messages(msgs, chatbot, new) == [msgs EXCEPT ![chatbot] = new]

\* Mutant: the user's message is stored although the model call failed.
run_agent_SaveOnError(msgs, r, ok) ==
    save_messages(msgs, r.chatbot,
                  IF ok THEN all_messages(r.message_history, r.n)
                  ELSE r.message_history \o <<UserMsg(r.n)>>)

\* BasicChatbotAgent.run_agent from the resumption of the model call on: the
\* histories of all agents once request r's call has ended (ok: with a reply).
run_agent(msgs, r, ok) ==
    IF ok
    THEN save_messages(msgs, r.chatbot, all_messages(r.message_history, r.n))
    ELSE msgs

\* Mutant: a touch of an identifier that is not in the table puts it there.
update_activity_Upsert(tbl, client_id, t) ==
    [c \in DOMAIN tbl \cup {client_id} |->
        IF c = client_id
        THEN <<IF c \in DOMAIN tbl THEN tbl[c][1] ELSE 1, t>>
        ELSE tbl[c]]

\* Mutant: the idle time is stored where the timestamp belongs.
update_activity_Elapsed(tbl, client_id, t) ==
    IF client_id \in DOMAIN tbl
    THEN [tbl EXCEPT ![client_id] = <<Chatbot(tbl[client_id]), t - LastActivity(tbl[client_id])>>]
    ELSE tbl

\* Mutant: the touch is forgotten.
update_activity_Skip(tbl, client_id, t) == tbl

update_activity(tbl, client_id, t) ==
    IF client_id \in DOMAIN tbl
    THEN [tbl EXCEPT ![client_id] = <<Chatbot(tbl[client_id]), t>>]
    ELSE tbl

\* Mutant: an entry is selected one sleep of the reaper too late.
inactive_clients_Late(tbl, current_time) ==
    {c \in DOMAIN tbl :
        current_time - LastActivity(tbl[c]) > INACTIVITY_THRESHOLD + SWEEP_SLEEP}

\* Mutant: the operands of the idle-time subtraction are swapped.
inactive_clients_Swapped(tbl, current_time) ==
    {c \in DOMAIN tbl : LastActivity(tbl[c]) - current_time > INACTIVITY_THRESHOLD}

\* Mutant: an entry idle for exactly the threshold is selected too.
inactive_clients_AtThreshold(tbl, current_time) ==
    {c \in DOMAIN tbl : current_time - LastActivity(tbl[c]) >= INACTIVITY_THRESHOLD}

inactive_clients(tbl, current_time) ==
    {c \in DOMAIN tbl : current_time - LastActivity(tbl[c]) > INACTIVITY_THRESHOLD}

\* Mutant: the deletion loop stops after its first key.
Delete_First(tbl, gone) ==
    [c \in DOMAIN tbl \ (IF gone = {} THEN {} ELSE {CHOOSE g \in gone : TRUE}) |-> tbl[c]]

Delete(tbl, gone) == [c \in DOMAIN tbl \ gone |-> tbl[c]]

Insert(tbl, client_id, entry) ==
    [c \in DOMAIN tbl \cup {client_id} |-> IF c = client_id THEN entry ELSE tbl[c]]

\* Mutant: the membership test is dropped, every chat builds an agent.
NeedsInstance_Always(tbl, client_id) == TRUE

\* if request.client_id not in chatbot_instances
NeedsInstance(tbl, client_id) == client_id \notin DOMAIN tbl

Retire(lf, tbl, gone, how) ==
    [a \in Agents |-> IF \E c \in gone : Chatbot(tbl[c]) = a THEN how ELSE lf[a]]

Reply(op, client_id, status) ==
    [op |-> op, client_id |-> client_id, status |-> status, body |-> <<>>]

\* Mutant: the handler answers normally instead of raising.
NotFound_Silent(op, client_id) == Reply(op, client_id, 200)

\* raise HTTPException(status_code=404, detail="Client ID not found")
NotFound(op, client_id) == Reply(op, client_id, 404)

\* An exception that leaves the chat handler: the framework answers 500.
ServerError(op, client_id) == Reply(op, client_id, 500)

Task(pc, must_cancel, done) == [pc |-> pc, must_cancel |-> must_cancel, done |-> done]

\* cleanup_task = None
NoTask == Task("none", FALSE, "no")

\* Mutant: the model call blocks the event loop, the reaper gets no turn
\* while a chat waits for its reply.
Running_Blocked(task) ==
    task.pc \in {"ready", "sleep", "error_sleep"} /\ task.done = "no" /\ inflight = {}

\* The reaper is suspended in its loop (or created and not yet run).
Running(task) == task.pc \in {"ready", "sleep", "error_sleep"} /\ task.done = "no"

\* Mutant: the except branch reports the error and raises it again.
AfterError_Raise(task) == Task("sleep", FALSE, "failed")

\* The reaper after an Exception raised in its try body: the except branch
\* (lines 43-46) reports it and sleeps.
AfterError(task) == Task("error_sleep", FALSE, "no")

\* Mutant: the except branch catches the cancellation raised at line 42 too
\* (`except BaseException`), reports it and sleeps.
OnCancel_Swallowed(task) ==
    IF task.pc = "sleep"
    THEN Task("error_sleep", FALSE, "no")
    ELSE Task(task.pc, FALSE, "cancelled")

\* The reaper after CancelledError is thrown into it where it is suspended:
\* CancelledError is a BaseException, so `except Exception` does not catch it
\* at line 42, and at line 46 it is raised inside the except branch; either
\* way it leaves the loop and the task ends cancelled.
OnCancel(task) == Task(task.pc, FALSE, "cancelled")

\* What `await cleanup_task` raises into lifespan() and what becomes of it:
\* CancelledError is caught (lines 28-29), any other exception escapes.
AwaitOutcome(task) == IF task.done = "cancelled" THEN "stopped" ELSE "error"

\* The command-line program is not part of the service.
NoRun == [pc |-> "none"]

\* ----------------------------------------------------------------- Init
\* The service after its modules are imported.
ServiceInit ==
    /\ chatbot_instances = <<>>
    /\ messages = [a \in Agents |-> <<>>]
    /\ life = [a \in Agents |-> "unborn"]
    /\ issued = {}
    /\ inflight = {}
    /\ nchat = 0
    /\ now = 0
    /\ wake = 0
    /\ cleanup_task = NoTask
    /\ lifespan = "startup"
    /\ response = Reply("none", None, 0)

Init == ServiceInit /\ cli = NoRun

\* -------------------------------------------------------------- actions
\* uuid.uuid4(): a value it has not returned before.
uuid4 == {UuidSeq[i] : i \in {Cardinality(issued) + 1} \cap DOMAIN UuidSeq}

\* The identifier the chat handler works with: the supplied one, or a uuid.
ChatIds(supplied) ==
    IF supplied = None THEN uuid4 ELSE {supplied}

\* Mutant: the resumed handler looks the agent up again by client_id.
HeldChatbot_Lookup(r) ==
    IF r.client_id \in DOMAIN chatbot_instances
    THEN Chatbot(chatbot_instances[r.client_id])
    ELSE r.chatbot

\* The agent object the resumed chat handler holds in its local `chatbot`.
HeldChatbot(r) == r.chatbot

\* chat(), up to the await of the model call, when the agent is found or built.
ChatStart(supplied) ==
    /\ lifespan = "serving"
    /\ nchat < MaxChats
    /\ \E client_id \in ChatIds(supplied) :
        LET create == NeedsInstance(chatbot_instances, client_id)
            tbl1 == IF create
                    THEN Insert(chatbot_instances, client_id, <<NewChatbot, now>>)
                    ELSE chatbot_instances
            chatbot == Chatbot(tbl1[client_id])
        IN  /\ create => NewChatbot \in Agents
            /\ issued' = IF supplied = None THEN issued \cup {client_id} ELSE issued
            /\ life' = IF create THEN [life EXCEPT ![NewChatbot] = "live"] ELSE life
            /\ chatbot_instances' = update_activity(tbl1, client_id, now)
            /\ inflight' = inflight \cup
                  {[n |-> nchat + 1, client_id |-> client_id, chatbot |-> chatbot,
                    message_history |-> messages[chatbot],
                    before |-> IF create THEN -1
                               ELSE LastActivity(chatbot_instances[client_id])]}
    /\ nchat' = nchat + 1
    /\ UNCHANGED <<cli, messages, now, wake, cleanup_task, lifespan, response>>

\* chat(), when BasicChatbotAgent() raises (config.json or the API key is missing).
ChatCtorFail(supplied) ==
    /\ lifespan = "serving"
    /\ nchat < MaxChats
    /\ \E client_id \in ChatIds(supplied) :
        /\ NeedsInstance(chatbot_instances, client_id)
        /\ issued' = IF supplied = None THEN issued \cup {client_id} ELSE issued
        /\ response' = ServerError("chat", client_id)
    /\ nchat' = nchat + 1
    /\ UNCHANGED <<cli, chatbot_instances, messages, life, inflight, now, wake, cleanup_task, lifespan>>

\* chat(), resumed with the model's reply.
ChatReturn(r) ==
    /\ lifespan = "serving"
    /\ r \in inflight
    /\ messages' = run_agent(messages, [r EXCEPT !.chatbot = HeldChatbot(r)], TRUE)
    /\ inflight' = inflight \ {r}
    /\ response' = [Reply("chat", r.client_id, 200) EXCEPT !.body = <<ModelMsg(r.n)>>]
    /\ UNCHANGED <<cli, chatbot_instances, life, issued, nchat, now, wake, cleanup_task, lifespan>>

\* chat(), resumed with the model call's exception.
ChatFail(r) ==
    /\ lifespan = "serving"
    /\ r \in inflight
    /\ messages' = run_agent(messages, [r EXCEPT !.chatbot = HeldChatbot(r)], FALSE)
    /\ inflight' = inflight \ {r}
    /\ response' = ServerError("chat", r.client_id)
    /\ UNCHANGED <<cli, chatbot_instances, life, issued, nchat, now, wake, cleanup_task, lifespan>>

reset_chat(client_id) ==
    /\ lifespan = "serving"
    /\ IF client_id \notin DOMAIN chatbot_instances
       THEN /\ response' = NotFound("reset", client_id)
            /\ UNCHANGED <<chatbot_instances, messages>>
       ELSE LET chatbot == Chatbot(chatbot_instances[client_id])
            IN  /\ messages' = save_messages(messages, chatbot, <<>>)
                /\ chatbot_instances' = update_activity(chatbot_instances, client_id, now)
                /\ response' = Reply("reset", client_id, 200)
    /\ UNCHANGED <<cli, life, issued, inflight, nchat, now, wake, cleanup_task, lifespan>>

remove_instance(client_id) ==
    /\ lifespan = "serving"
    /\ IF client_id \in DOMAIN chatbot_instances
       THEN /\ chatbot_instances' = Delete(chatbot_instances, {client_id})
            /\ life' = Retire(life, chatbot_instances, {client_id}, "removed")
            /\ response' = Reply("remove", client_id, 200)
       ELSE /\ response' = NotFound("remove", client_id)
            /\ UNCHANGED <<chatbot_instances, life>>
    /\ UNCHANGED <<cli, messages, issued, inflight, nchat, now, wake, cleanup_task, lifespan>>

\* Mutant: the time left is not cut off at zero.
Overview_NoClamp(tbl, msgs, current_time) ==
    [c \in DOMAIN tbl |->
        LET idle == current_time - LastActivity(tbl[c])
        IN  [idle_time_seconds |-> idle,
             message_count |-> Len(msgs[Chatbot(tbl[c])]),
             will_expire_in |-> INACTIVITY_THRESHOLD - idle]]

\* Mutant: entries that are due for eviction are left out of the listing.
Overview_Unexpired(tbl, msgs, current_time) ==
    [c \in DOMAIN tbl \ inactive_clients(tbl, current_time) |->
        LET idle == current_time - LastActivity(tbl[c])
            left == INACTIVITY_THRESHOLD - idle
        IN  [idle_time_seconds |-> idle,
             message_count |-> Len(msgs[Chatbot(tbl[c])]),
             will_expire_in |-> IF 0 >= left THEN 0 ELSE left]]

\* The body of get_chatbot_instances' answer (its last_activity field, the
\* timestamp printed as text, is left out).
Overview(tbl, msgs, current_time) ==
    [c \in DOMAIN tbl |->
        LET idle == current_time - LastActivity(tbl[c])
            left == INACTIVITY_THRESHOLD - idle
        IN  [idle_time_seconds |-> idle,
             message_count |-> Len(msgs[Chatbot(tbl[c])]),
             will_expire_in |-> IF 0 >= left THEN 0 ELSE left]]

get_chatbot_instances ==
    /\ lifespan = "serving"
    /\ response' = [op |-> "instances", client_id |-> None, status |-> 200,
                    active_instances |-> Cardinality(DOMAIN chatbot_instances),
                    body |-> Overview(chatbot_instances, messages, now)]
    /\ UNCHANGED <<cli, chatbot_instances, messages, life, issued, inflight, nchat, now, wake, cleanup_task, lifespan>>

get_chat_history(client_id) ==
    /\ lifespan = "serving"
    /\ IF client_id \notin DOMAIN chatbot_instances
       THEN /\ response' = NotFound("history", client_id)
            /\ UNCHANGED chatbot_instances
       ELSE /\ chatbot_instances' = update_activity(chatbot_instances, client_id, now)
            /\ response' = [Reply("history", client_id, 200) EXCEPT
                              !.body = messages[Chatbot(chatbot_instances[client_id])]]
    /\ UNCHANGED <<cli, messages, life, issued, inflight, nchat, now, wake, cleanup_task, lifespan>>

\* One pass of cleanup_inactive_instances(): the try body up to the sleep.
Sweep ==
    /\ Running(cleanup_task) /\ ~cleanup_task.must_cancel
    /\ now >= wake
    /\ LET inactive == inactive_clients(chatbot_instances, now)
       IN  /\ chatbot_instances' = Delete(chatbot_instances, inactive)
           /\ life' = Retire(life, chatbot_instances, inactive, "evicted")
    /\ wake' = now + SWEEP_SLEEP
    /\ cleanup_task' = Task("sleep", FALSE, "no")
    /\ UNCHANGED <<cli, messages, issued, inflight, nchat, now, lifespan, response>>

\* A pass whose try body raises an Exception while it reads the clock or the
\* table: the except branch reports it and sleeps.
SweepFail ==
    /\ Running(cleanup_task) /\ ~cleanup_task.must_cancel
    /\ now >= wake
    /\ wake' = now + ERROR_SLEEP
    /\ cleanup_task' = AfterError(cleanup_task)
    /\ UNCHANGED <<cli, chatbot_instances, messages, life, issued, inflight, nchat, now,
                   lifespan, response>>

\* lifespan(), up to the yield: the reaper task is created.
lifespan_startup ==
    /\ lifespan = "startup"
    /\ cleanup_task' = Task("ready", FALSE, "no")
    /\ lifespan' = "serving"
    /\ UNCHANGED <<cli, chatbot_instances, messages, life, issued, inflight, nchat, now, wake,
                   response>>

\* lifespan(), after the yield: cancel() and the await of the task. The server
\* runs it once the requests in flight have been answered.
lifespan_shutdown ==
    /\ lifespan = "serving"
    /\ inflight = {}
    /\ cleanup_task' = IF Running(cleanup_task)
                       THEN [cleanup_task EXCEPT !.must_cancel = TRUE]
                       ELSE cleanup_task
    /\ lifespan' = "awaiting"
    /\ UNCHANGED <<cli, chatbot_instances, messages, life, issued, inflight, nchat, now, wake,
                   response>>

\* The event loop throws CancelledError into the reaper where it is suspended.
ReaperCancelled ==
    /\ Running(cleanup_task) /\ cleanup_task.must_cancel
    /\ cleanup_task' = OnCancel(cleanup_task)
    /\ wake' = IF Running(OnCancel(cleanup_task)) THEN now + ERROR_SLEEP ELSE wake
    /\ UNCHANGED <<cli, chatbot_instances, messages, life, issued, inflight, nchat, now,
                   lifespan, response>>

\* lifespan(), resumed by the end of the task it awaits.
lifespan_done ==
    /\ lifespan = "awaiting"
    /\ cleanup_task.done # "no"
    /\ lifespan' = AwaitOutcome(cleanup_task)
    /\ UNCHANGED <<cli, chatbot_instances, messages, life, issued, inflight, nchat, now, wake,
                   cleanup_task, response>>

Tick ==
    /\ \E d \in Ticks :
        /\ now + d <= MaxTime
        /\ now' = now + d
    /\ UNCHANGED <<cli, chatbot_instances, messages, life, issued, inflight, nchat, wake, cleanup_task, lifespan, response>>

\* Identifiers a caller can send: invented ones and the ones it was given.
Known == ClientIds \cup issued

\* The request handlers.
Requests ==
    \/ \E supplied \in Known \cup {None} : ChatStart(supplied)
    \/ \E supplied \in Known \cup {None} : ChatCtorFail(supplied)
    \/ \E r \in inflight : ChatReturn(r)
    \/ \E r \in inflight : ChatFail(r)
    \/ \E client_id \in Known : reset_chat(client_id)
    \/ \E client_id \in Known : remove_instance(client_id)
    \/ \E client_id \in Known : get_chat_history(client_id)
    \/ get_chatbot_instances

\* The service while it serves: the application has started, the reaper's
\* passes succeed.
Next ==
    \/ lifespan_startup
    \/ Requests
    \/ Sweep
    \/ Tick

Spec == Init /\ [][Next]_vars

\* The life cycle of the service: the application starts, sessions are
\* created by chats and removed, the reaper's passes succeed or fail, and the
\* application shuts down.
NextLife ==
    \/ lifespan_startup
    \/ \E supplied \in Known \cup {None} : ChatStart(supplied)
    \/ \E r \in inflight : ChatReturn(r)
    \/ \E r \in inflight : ChatFail(r)
    \/ \E client_id \in Known : remove_instance(client_id)
    \/ Sweep
    \/ SweepFail
    \/ Tick
    \/ lifespan_shutdown
    \/ ReaperCancelled
    \/ lifespan_done

SpecLife == Init /\ [][NextLife]_vars

\* Time passes while every task is suspended. The event loop resumes the
\* reaper when its sleep ends, so the clock does not pass `wake` before the
\* pass that is due has run (a pass itself takes no time).
Elapse ==
    /\ \E d \in Steps :
        /\ now + d <= Horizon
        /\ Running(cleanup_task) => now + d <= wake
        /\ now' = now + d
    /\ UNCHANGED <<cli, chatbot_instances, messages, life, issued, inflight, nchat, wake,
                   cleanup_task, lifespan, response>>

\* The reaper against the clock: a session is made and used by chats, every
\* pass succeeds and runs when it is due.
NextTimed ==
    \/ lifespan_startup
    \/ \E supplied \in ClientIds : ChatStart(supplied)
    \/ \E r \in inflight : ChatReturn(r)
    \/ Sweep
    \/ Elapse

\* The event loop runs a task that is ready, and time goes on.
SpecTimed == Init /\ [][NextTimed]_vars /\ WF_vars(Sweep) /\ WF_vars(Elapse)

\* ------------------------------------------------- command-line program
\* Files an agents directory may hold, as <<stem, extension>>.
FilePool == {<<"BasicChatbotAgent", "py">>, <<"basic_gen", "py">>,
             <<"base_agent", "py">>, <<"notes", "txt">>}

\* An agents directory: the files in it and those whose import raises.
Dirs ==
    {[files |-> fs, broken |-> b] :
        fs \in SUBSET FilePool, b \in SUBSET {f \in FilePool : f[2] = "py"}}

\* glob.glob(os.path.join(AGENTS_DIR, "*.py"))
agent_files(dir) == {f \in dir.files : f[2] = "py"}

\* os.path.splitext(os.path.basename(agent_file))[0]
module_name(f) == f[1]

\* importlib.import_module: the module, or an Exception (ImportError,
\* SyntaxError, or whatever the module's own code raises).
Imports(dir, f) == f \notin dir.broken

\* Mutant: the import is not guarded, the first failure leaves the function.
discover_agents_Unguarded(dir) ==
    IF \E f \in agent_files(dir) : ~Imports(dir, f)
    THEN [agents |-> <<>>, errors |-> {}, raised |-> TRUE]
    ELSE [agents |-> [n \in {module_name(f) : f \in agent_files(dir)} |->
                         CHOOSE f \in agent_files(dir) : module_name(f) = n],
          errors |-> {}, raised |-> FALSE]

\* discover_agents(): the dictionary it returns (module name -> module, the
\* module standing for the file it was loaded from), the names its error
\* messages give, and whether an exception left it.
discover_agents(dir) ==
    LET loaded == {f \in agent_files(dir) : Imports(dir, f)}
    IN  [agents |-> [n \in {module_name(f) : f \in loaded} |->
                        CHOOSE f \in loaded : module_name(f) = n],
         errors |-> {module_name(f) : f \in agent_files(dir) \ loaded},
         raised |-> FALSE]

\* A call of discover_agents() on a directory.
InitDiscover ==
    /\ ServiceInit
    /\ cli \in {[pc |-> "discover", dir |-> d] : d \in Dirs}

Discover ==
    /\ cli.pc = "discover"
    /\ cli' = [pc |-> "discovered", dir |-> cli.dir, found |-> discover_agents(cli.dir)]
    /\ UNCHANGED <<chatbot_instances, messages, life, issued, inflight, nchat, now, wake,
                   cleanup_task, lifespan, response>>

SpecDiscover == InitDiscover /\ [][Discover]_vars

\* --- get_selection_from_list
\* Lines the user can type, as sequences of characters.
Chars == {"0", "1", "2", "-", " ", "x"}
MaxLineLen == 2
Lines == UNION {[1..n -> Chars] : n \in 0..MaxLineLen}
MaxReads == 3

Digits == {"0", "1", "2", "3", "4", "5", "6", "7", "8", "9"}
DigitValue(c) == CHOOSE v \in 0..9 : <<"0", "1", "2", "3", "4", "5", "6", "7", "8", "9">>[v + 1] = c

\* str.strip(): leading and trailing white space removed.
RECURSIVE LStrip(_)
LStrip(s) == IF s # <<>> /\ s[1] = " " THEN LStrip(Tail(s)) ELSE s
RECURSIVE RStrip(_)
RStrip(s) == IF s # <<>> /\ s[Len(s)] = " " THEN RStrip(SubSeq(s, 1, Len(s) - 1)) ELSE s
strip(s) == RStrip(LStrip(s))

RECURSIVE DecimalValue(_)
DecimalValue(s) ==
    IF s = <<>> THEN 0
    ELSE 10 * DecimalValue(SubSeq(s, 1, Len(s) - 1)) + DigitValue(s[Len(s)])

\* Mutant: every line is a number, a line that is not a numeral counts as 1.
int_Lenient(line) ==
    LET t == strip(line)
    IN  IF t # <<>> /\ \A i \in 1..Len(t) : t[i] \in Digits
        THEN [ok |-> TRUE, value |-> DecimalValue(t)]
        ELSE [ok |-> TRUE, value |-> 1]

\* int(str): white space around the numeral is ignored, a sign may precede
\* the digits, leading zeros are allowed; anything else is a ValueError.
int(line) ==
    LET t    == strip(line)
        neg  == t # <<>> /\ t[1] = "-"
        body == IF t # <<>> /\ t[1] \in {"-", "+"} THEN Tail(t) ELSE t
    IN  IF body # <<>> /\ \A i \in 1..Len(body) : body[i] \in Digits
        THEN [ok |-> TRUE, value |-> IF neg THEN 0 - DecimalValue(body) ELSE DecimalValue(body)]
        ELSE [ok |-> FALSE, value |-> 0]

\* The option lists the menus pass (show_menu, select_llm, select_agent);
\* select_agent passes an empty list when no agent was discovered.
OptionLists == {<<>>, <<"Exit">>, <<"Select LLM", "Exit">>}

InitSelect ==
    /\ ServiceInit
    /\ cli \in {[pc |-> "prompt", options |-> o, reads |-> 0, line |-> <<>>,
                 printed |-> "none", result |-> None] : o \in OptionLists}

\* One turn of the loop: input() returns a line.
ReadChoice(line) ==
    /\ cli.pc = "prompt"
    /\ cli.reads < MaxReads
    /\ LET choice == int(line)
           read   == [cli EXCEPT !.reads = @ + 1, !.line = line]
       IN  cli' = IF ~choice.ok
                  THEN [read EXCEPT !.printed = "Invalid input. Please enter a number."]
                  ELSE IF 1 <= choice.value /\ choice.value <= Len(cli.options)
                  THEN [read EXCEPT !.pc = "returned", !.printed = "none",
                                    !.result = cli.options[choice.value]]
                  ELSE [read EXCEPT !.printed =
                            "Invalid choice. Please enter a number from the list."]
    /\ UNCHANGED <<chatbot_instances, messages, life, issued, inflight, nchat, now, wake,
                   cleanup_task, lifespan, response>>

\* input() raises instead: EOFError at the end of the input, KeyboardInterrupt
\* on Ctrl-C. Neither is caught, the exception leaves the function.
ReadRaises(exc) ==
    /\ cli.pc = "prompt"
    /\ cli.reads < MaxReads
    /\ cli' = [cli EXCEPT !.pc = "raised", !.reads = @ + 1, !.line = <<>>, !.printed = exc]
    /\ UNCHANGED <<chatbot_instances, messages, life, issued, inflight, nchat, now, wake,
                   cleanup_task, lifespan, response>>

NextSelect ==
    \/ \E line \in Lines : ReadChoice(line)
    \/ \E exc \in {"EOFError", "KeyboardInterrupt"} : ReadRaises(exc)

SpecSelect == InitSelect /\ [][NextSelect]_vars

\* --- run_interactive_chat
\* str.lower() on the letters the chat lines use.
UpperCase == <<"A", "C", "E", "I", "L", "Q", "R", "S", "T", "U", "X", "Y">>
LowerCase == <<"a", "c", "e", "i", "l", "q", "r", "s", "t", "u", "x", "y">>
lower(s) ==
    [i \in 1..Len(s) |->
        IF \E k \in 1..Len(UpperCase) : UpperCase[k] = s[i]
        THEN LowerCase[CHOOSE k \in 1..Len(UpperCase) : UpperCase[k] = s[i]]
        ELSE s[i]]

\* Lines the user types at the chat prompt.
ChatLines ==
    {<<"e", "x", "i", "t">>, <<" ", "E", "x", "i", "t", " ">>, <<"Q", "U", "I", "T">>,
     <<"r", "e", "s", "e", "t">>, <<"C", "l", "e", "a", "r", " ">>,
     <<"h", "i">>, <<" ", "h", "i">>, <<"e", "x", "i", "t", "s">>, <<>>, <<" ">>}
MaxTurns == 3

\* What the agent object of the command-line program offers: the methods and
\* fields of agents.BasicChatbotAgent and its base class. It keeps no
\* message history and has no save_messages.
AgentAttributes ==
    {"run_agent", "create_agent", "get_model", "get_api_key", "model_type", "model_name",
     "system_prompt", "settings", "result_type", "api_key_env_var", "examples_file"}

\* `await agent.run_agent(user_input)`: it returns the reply; it raises an
\* Exception (no API key, the model call fails); Ctrl-C arrives while it is
\* awaited, and KeyboardInterrupt is raised either inside the coroutine or
\* in the event loop that runs it.
CallOutcomes == {"reply", "Exception", "KeyboardInterrupt", "KeyboardInterrupt in loop"}

InitChat ==
    /\ ServiceInit
    /\ cli = [pc |-> "chat", turns |-> 0, event |-> "none", line |-> <<>>,
              calls |-> 0, sent |-> <<>>, printed |-> "Welcome", exc |-> None]

\* One turn in which prompt_async returns a line.
ChatTurn(line, outcome) ==
    /\ cli.pc = "chat"
    /\ cli.turns < MaxTurns
    /\ LET user_input == strip(line)
           read       == [cli EXCEPT !.turns = @ + 1, !.event = "line", !.line = line]
           called     == [read EXCEPT !.calls = @ + 1, !.sent = user_input]
       IN  cli' =
             IF lower(user_input) \in {<<"e", "x", "i", "t">>, <<"q", "u", "i", "t">>}
             THEN [read EXCEPT !.pc = "ended", !.printed = "Conversation ended."]
             ELSE IF lower(user_input) \in {<<"r", "e", "s", "e", "t">>,
                                            <<"c", "l", "e", "a", "r">>}
             THEN IF "save_messages" \in AgentAttributes
                  THEN [read EXCEPT !.printed = "cleared"]
                  ELSE [read EXCEPT !.pc = "raised", !.printed = "cleared",
                                    !.exc = "AttributeError"]
             ELSE CASE outcome = "reply" -> [called EXCEPT !.printed = "response"]
                    [] outcome = "Exception" ->
                           [called EXCEPT !.pc = "raised", !.exc = "Exception"]
                    [] outcome = "KeyboardInterrupt" -> called
                    [] outcome = "KeyboardInterrupt in loop" ->
                           [called EXCEPT !.pc = "raised", !.exc = "KeyboardInterrupt"]
    /\ UNCHANGED <<chatbot_instances, messages, life, issued, inflight, nchat, now, wake,
                   cleanup_task, lifespan, response>>

\* prompt_async raises KeyboardInterrupt (Ctrl-C at the prompt): continue.
PromptInterrupted ==
    /\ cli.pc = "chat"
    /\ cli.turns < MaxTurns
    /\ cli' = [cli EXCEPT !.turns = @ + 1, !.event = "KeyboardInterrupt", !.line = <<>>]
    /\ UNCHANGED <<chatbot_instances, messages, life, issued, inflight, nchat, now, wake,
                   cleanup_task, lifespan, response>>

\* prompt_async raises EOFError (end of input): break.
PromptEOF ==
    /\ cli.pc = "chat"
    /\ cli.turns < MaxTurns
    /\ cli' = [cli EXCEPT !.pc = "ended", !.turns = @ + 1, !.event = "EOFError",
                          !.line = <<>>]
    /\ UNCHANGED <<chatbot_instances, messages, life, issued, inflight, nchat, now, wake,
                   cleanup_task, lifespan, response>>

NextChat ==
    \/ \E line \in ChatLines, outcome \in CallOutcomes : ChatTurn(line, outcome)
    \/ PromptInterrupted
    \/ PromptEOF

SpecChat == InitChat /\ [][NextChat]_vars

\* --- the entry points: main() of agent_term.py and of main.py
\* Words of a command line, and how each is spelled.
ArgTokens == {"--menu", "--agent", "-h", "BasicChatbotAgent", "hi", "x"}
Spelling ==
    [t \in ArgTokens |->
        CASE t = "--menu" -> <<"-", "-", "m", "e", "n", "u">>
          [] t = "--agent" -> <<"-", "-", "a", "g", "e", "n", "t">>
          [] t = "-h" -> <<"-", "h">>
          [] t = "BasicChatbotAgent" ->
                 <<"B", "a", "s", "i", "c", "C", "h", "a", "t", "b", "o", "t",
                   "A", "g", "e", "n", "t">>
          [] t = "hi" -> <<"h", "i">>
          [] t = "x" -> <<"x">>]
MaxArgs == 3
CommandLines == UNION {[1..n -> ArgTokens] : n \in 0..MaxArgs}

\* argparse takes a word that begins with "-" for an option.
IsOption(tok) == Spelling[tok][1] = "-"

\* parser.parse_args() of agent_term.py: positional input_query (nargs "?"),
\* --agent/-a NAME, --menu, and the -h/--help argparse adds. Help exits with
\* status 0 where it is met; an error exits with status 2.
RECURSIVE parse_args(_, _)
parse_args(argv, ns) ==
    IF argv = <<>>
    THEN IF ns.rest # <<>> THEN [status |-> "SystemExit(2)"] ELSE ns
    ELSE LET tok == Head(argv)
         IN  CASE tok \in {"-h", "--help"} -> [status |-> "SystemExit(0)"]
               [] tok = "--menu" -> parse_args(Tail(argv), [ns EXCEPT !.menu = TRUE])
               [] tok \in {"--agent", "-a"} ->
                      IF Len(argv) >= 2 /\ ~IsOption(argv[2])
                      THEN parse_args(SubSeq(argv, 3, Len(argv)),
                                      [ns EXCEPT !.agent = argv[2]])
                      ELSE [status |-> "SystemExit(2)"]
               [] OTHER ->
                      IF ~IsOption(tok) /\ ns.input_query = None
                      THEN parse_args(Tail(argv), [ns EXCEPT !.input_query = tok])
                      ELSE parse_args(Tail(argv), [ns EXCEPT !.rest = Append(@, tok)])

\* parser.parse_known_args() of main.py: positional agent_name (nargs "?"),
\* -m/--menu, -h/--help as a plain flag; what it does not know is returned
\* as the remaining arguments.
RECURSIVE parse_known_args(_, _)
parse_known_args(argv, ns) ==
    IF argv = <<>> THEN ns
    ELSE LET tok == Head(argv)
         IN  CASE tok \in {"-h", "--help"} ->
                      parse_known_args(Tail(argv), [ns EXCEPT !.help = TRUE])
               [] tok \in {"-m", "--menu"} ->
                      parse_known_args(Tail(argv), [ns EXCEPT !.menu = TRUE])
               [] OTHER ->
                      IF ~IsOption(tok) /\ ns.agent_name = None
                      THEN parse_known_args(Tail(argv), [ns EXCEPT !.agent_name = tok])
                      ELSE parse_known_args(Tail(argv), [ns EXCEPT !.rest = Append(@, tok)])

Namespace_agent_term ==
    [status |-> "ok", menu |-> FALSE, agent |-> None, input_query |-> None, rest |-> <<>>]
Namespace_main ==
    [status |-> "ok", menu |-> FALSE, help |-> FALSE, agent_name |-> None, rest |-> <<>>]

\* Agents directories a run can meet: the repository's own, the same with a
\* BasicChatbotAgent module that does not import, and one without modules.
CliDirs ==
    {[files |-> FilePool, broken |-> {}],
     [files |-> FilePool, broken |-> {<<"BasicChatbotAgent", "py">>}],
     [files |-> {<<"notes", "txt">>}, broken |-> {}]}

\* The classes each agent module defines.
ClassesOf(stem) ==
    CASE stem = "BasicChatbotAgent" -> {"ChatResponse", "ChatbotSettings", "BasicChatbotAgent"}
      [] stem = "basic_gen" -> {"ChatResponse", "BasicChatbotAgent"}
      [] stem = "base_agent" -> {"BaseAgent"}
      [] OTHER -> {}

\* Argument values: None, a str (its characters) or a list of words.
NoArgs == [kind |-> "None", value |-> <<>>]
StrArg(tok) == [kind |-> "str", value |-> Spelling[tok]]
ListArg(toks) == [kind |-> "list", value |-> toks]

\* Python's truth value of an argument, and agent_args[0] as text: the first
\* character of a str, the first element of a list.
Truthy(arg) == arg.kind # "None" /\ arg.value # <<>>
FirstItem(arg) == IF arg.kind = "str" THEN <<arg.value[1]>> ELSE Spelling[arg.value[1]]

Call(fn, by, agent_name, agent_args) ==
    [fn |-> fn, by |-> by, agent_name |-> agent_name, agent_args |-> agent_args]
NoCall == Call("none", "none", None, NoArgs)
NothingReceived == [kind |-> "none", text |-> <<>>, awaited |-> FALSE]

\* Mutant: a named agent is served before the menu option is looked at.
Dispatch_AgentFirst(program, ns) ==
    IF program = "agent_term"
    THEN IF ns.agent # None
         THEN Call("run_agent", "main", ns.agent,
                   IF ns.input_query = None THEN NoArgs ELSE StrArg(ns.input_query))
         ELSE IF ns.menu THEN Call("show_menu", "main", None, NoArgs)
         ELSE IF ns.input_query # None
         THEN Call("run_agent", "main", "BasicChatbotAgent", StrArg(ns.input_query))
         ELSE Call("run_interactive_chat", "main", None, NoArgs)
    ELSE IF ns.agent_name # None
         THEN Call("run_agent", "main", ns.agent_name, ListArg(ns.rest))
         ELSE IF ns.menu THEN Call("show_menu", "main", None, NoArgs)
         ELSE Call("run_agent", "main", "BasicChatbotAgent", NoArgs)

\* The branch main() takes on the parsed command line: the call it makes.
\* agent_term.py hands run_agent the query as it is, a str; main.py hands
\* it the remaining arguments, a list.
Dispatch(program, ns) ==
    IF program = "agent_term"
    THEN IF ns.menu THEN Call("show_menu", "main", None, NoArgs)
         ELSE IF ns.agent # None
         THEN Call("run_agent", "main", ns.agent,
                   IF ns.input_query = None THEN NoArgs ELSE StrArg(ns.input_query))
         ELSE IF ns.input_query # None
         THEN Call("run_agent", "main", "BasicChatbotAgent", StrArg(ns.input_query))
         ELSE Call("run_interactive_chat", "main", None, NoArgs)
    ELSE IF ns.menu THEN Call("show_menu", "main", None, NoArgs)
         ELSE IF ns.agent_name # None
         THEN Call("run_agent", "main", ns.agent_name, ListArg(ns.rest))
         ELSE Call("run_agent", "main", "BasicChatbotAgent", NoArgs)

\* Where the program is once a call has been made.
PcOf(call) ==
    CASE call.fn = "show_menu" -> "show_menu"
      [] call.fn = "run_agent" -> "run_agent"
      [] call.fn = "run_interactive_chat" -> "chat"

Ended(run, how) == [run EXCEPT !.pc = "done", !.ending = how, !.pending = NoCall]
Invoke(run, call) ==
    [run EXCEPT !.pc = PcOf(call), !.calls = Append(@, call), !.pending = call]

InitCli ==
    /\ ServiceInit
    /\ cli \in {[pc |-> "start", program |-> p, argv |-> a, config |-> c, dir |-> d,
                 agents |-> <<>>, calls |-> <<>>, pending |-> NoCall,
                 received |-> NothingReceived, ending |-> "none", picks |-> 0] :
                    p \in {"agent_term", "main"}, a \in CommandLines,
                    c \in {"ok", "missing"}, d \in CliDirs}

\* main() of agent_term.py up to the call it dispatches to.
main_agent_term ==
    /\ cli.pc = "start"
    /\ cli.program = "agent_term"
    /\ LET args   == parse_args(cli.argv, Namespace_agent_term)
           agents == discover_agents(cli.dir).agents
           found  == [cli EXCEPT !.agents = agents]
       IN  cli' = IF args.status # "ok" THEN Ended(cli, args.status)
                  ELSE IF cli.config = "missing" THEN Ended(cli, "error printed")
                  ELSE IF DOMAIN agents = {} THEN Ended(found, "returned")
                  ELSE Invoke(found, Dispatch("agent_term", args))
    /\ UNCHANGED <<chatbot_instances, messages, life, issued, inflight, nchat, now, wake,
                   cleanup_task, lifespan, response>>

\* main() of main.py up to the call it dispatches to.
main_main ==
    /\ cli.pc = "start"
    /\ cli.program = "main"
    /\ LET args   == parse_known_args(cli.argv, Namespace_main)
           agents == discover_agents(cli.dir).agents
           found  == [cli EXCEPT !.agents = agents]
       IN  cli' = IF cli.config = "missing" THEN Ended(cli, "FileNotFoundError")
                  ELSE IF args.help
                  THEN IF args.agent_name # None /\ args.agent_name \notin DOMAIN agents
                       THEN Ended(found, "SystemExit(1)")
                       ELSE Ended(found, "SystemExit(0)")
                  ELSE Invoke(found, Dispatch("main", args))
    /\ UNCHANGED <<chatbot_instances, messages, life, issued, inflight, nchat, now, wake,
                   cleanup_task, lifespan, response>>

\* The agent module's own parser (main_parser): -k/--keep-context and the
\* -h argparse adds; any other word is an error.
main_parser_parse_args(argv) ==
    IF \E i \in 1..Len(argv) : argv[i] \in {"-h", "--help"} THEN "SystemExit(0)"
    ELSE IF \A i \in 1..Len(argv) : argv[i] \in {"-k", "--keep-context"} THEN "ok"
    ELSE "SystemExit(2)"

\* After run_agent returns: back in the menu, or main() is over.
Returned(run) ==
    IF run.pending.by = "show_menu"
    THEN [run EXCEPT !.pc = "show_menu", !.pending = NoCall]
    ELSE Ended(run, "returned")

\* The body of run_agent for the call that is pending. An Exception in it
\* (no class of the agent's name in the module, a failing model call) is
\* caught and printed, and run_agent returns as it does after a reply;
\* SystemExit from the agent's parser is not caught.
run_agent_body ==
    /\ cli.pc = "run_agent"
    /\ LET name == cli.pending.agent_name
           args == cli.pending.agent_args
       IN  cli' =
             IF name \notin DOMAIN cli.agents THEN Returned(cli)
             ELSE IF name \notin ClassesOf(module_name(cli.agents[name])) THEN Returned(cli)
             ELSE IF cli.program = "agent_term"
             THEN IF Truthy(args)
                  THEN Returned([cli EXCEPT !.received =
                           [kind |-> "str", text |-> FirstItem(args), awaited |-> TRUE]])
                  ELSE Invoke(cli, Call("run_interactive_chat", "run_agent", name, NoArgs))
             ELSE LET parsed == main_parser_parse_args(
                                    IF args.kind = "None" THEN cli.argv ELSE args.value)
                  IN  IF parsed # "ok" THEN Ended(cli, parsed)
                      ELSE Returned([cli EXCEPT !.received =
                               [kind |-> "Namespace", text |-> <<>>, awaited |-> FALSE]])
    /\ UNCHANGED <<chatbot_instances, messages, life, issued, inflight, nchat, now, wake,
                   cleanup_task, lifespan, response>>

\* The entries of the main menu ("Change agents" for the configuration key
\* agents).
MenuOptions == {"Select LLM", "Select Agent", "Change agents", "Help", "Exit"}
MaxMenu == 2

\* One turn of show_menu: the entry selected and, for Select Agent, the agent
\* selected and the answer to "Run agent ... now? (y/n)". Only main.py runs
\* the agent on "y"; in agent_term.py those lines are commented out.
show_menu(option, name, answer) ==
    /\ cli.pc = "show_menu"
    /\ cli.picks < MaxMenu
    /\ option = "Select Agent" => name \in DOMAIN cli.agents
    /\ LET picked == [cli EXCEPT !.picks = @ + 1]
       IN  cli' = IF option = "Exit" THEN Ended(picked, "returned")
                  ELSE IF option = "Select Agent" /\ cli.program = "main"
                          /\ lower(<<answer>>) = <<"y">>
                  THEN Invoke(picked, Call("run_agent", "show_menu", name, NoArgs))
                  ELSE picked
    /\ UNCHANGED <<chatbot_instances, messages, life, issued, inflight, nchat, now, wake,
                   cleanup_task, lifespan, response>>

\* input() raises in the menu (end of input, Ctrl-C): the exception leaves
\* show_menu; only agent_term.py catches it, and only EOFError.
show_menu_raises(exc) ==
    /\ cli.pc = "show_menu"
    /\ cli.picks < MaxMenu
    /\ cli' = Ended([cli EXCEPT !.picks = @ + 1],
                    IF cli.program = "agent_term" /\ exc = "EOFError"
                    THEN "error printed" ELSE exc)
    /\ UNCHANGED <<chatbot_instances, messages, life, issued, inflight, nchat, now, wake,
                   cleanup_task, lifespan, response>>

NextCli ==
    \/ main_agent_term
    \/ main_main
    \/ run_agent_body
    \/ \E option \in MenuOptions, name \in {module_name(f) : f \in FilePool},
          answer \in {"y", "Y", "n"} : show_menu(option, name, answer)
    \/ \E exc \in {"EOFError", "KeyboardInterrupt"} : show_menu_raises(exc)

SpecCli == InitCli /\ [][NextCli]_vars

\* ---------------------------------------------------------------- claims
\* The chat request that has just been suspended on the model call.
Started == inflight' \ inflight

\* C1: chat requests with the same client identifier, overlapping or not,
\* build one entry and one agent: a chat whose identifier is not in the table
\* inserts exactly that key with exactly one new agent, a chat whose identifier
\* is in the table builds nothing and holds the entry's agent, and every
\* suspended chat whose agent is still in the table holds the agent of its
\* identifier's entry.
C1_OneAgentPerClient ==
    /\ [](\A r \in inflight :
            life[r.chatbot] = "live" =>
                /\ r.client_id \in DOMAIN chatbot_instances
                /\ Chatbot(chatbot_instances[r.client_id]) = r.chatbot)
    /\ [][\A r \in Started :
            /\ Chatbot(chatbot_instances'[r.client_id]) = r.chatbot
            /\ IF r.client_id \in DOMAIN chatbot_instances
               THEN /\ DOMAIN chatbot_instances' = DOMAIN chatbot_instances
                    /\ Born' = Born
                    /\ r.chatbot = Chatbot(chatbot_instances[r.client_id])
               ELSE /\ DOMAIN chatbot_instances' = DOMAIN chatbot_instances \cup {r.client_id}
                    /\ Born' = Born \cup {r.chatbot}
                    /\ r.chatbot \notin Born]_vars

C1_Witness ==
    \E r1 \in inflight : \E r2 \in inflight :
        /\ r1.n # r2.n
        /\ r1.client_id = r2.client_id
        /\ r1.chatbot = r2.chatbot
        /\ r1.client_id \in DOMAIN chatbot_instances
        /\ Chatbot(chatbot_instances[r1.client_id]) = r1.chatbot
        /\ Cardinality(Born) = 1

\* C2: when the model call of a chat request on an already existing session
\* fails, the entry's last_activity after the failed request equals its value
\* before the request (stated for a request that was alone in flight).
C2_TouchOnlyAfterReply ==
    [][\A r \in inflight :
          (/\ ChatFail(r)
           /\ inflight = {r}
           /\ r.before # -1
           /\ r.client_id \in DOMAIN chatbot_instances'
           /\ Chatbot(chatbot_instances'[r.client_id]) = r.chatbot) =>
              LastActivity(chatbot_instances'[r.client_id]) = r.before]_vars

\* C3: right after a sweep that read the clock at `now`, no entry of the table
\* has now - last_activity > INACTIVITY_THRESHOLD.
C3_SweepEvictsIdle ==
    [][Sweep =>
        \A c \in DOMAIN chatbot_instances' :
            now - LastActivity(chatbot_instances'[c]) <= INACTIVITY_THRESHOLD]_vars

C3_Witness ==
    /\ wake = now + SWEEP_SLEEP
    /\ now > INACTIVITY_THRESHOLD
    /\ \E a \in Agents : life[a] = "evicted"

\* C4: a sweep adds no key and leaves every entry idle for at most the
\* threshold (exactly the threshold included) in the table with the same
\* agent, the same last_activity and the same message history.
C4_SweepKeepsActive ==
    [][Sweep =>
        /\ DOMAIN chatbot_instances' \subseteq DOMAIN chatbot_instances
        /\ \A c \in DOMAIN chatbot_instances :
            now - LastActivity(chatbot_instances[c]) <= INACTIVITY_THRESHOLD =>
                /\ c \in DOMAIN chatbot_instances'
                /\ chatbot_instances'[c] = chatbot_instances[c]
                /\ messages'[Chatbot(chatbot_instances[c])]
                       = messages[Chatbot(chatbot_instances[c])]]_vars

C4_Witness ==
    /\ wake = now + SWEEP_SLEEP
    /\ \E c \in DOMAIN chatbot_instances :
        now - LastActivity(chatbot_instances[c]) = INACTIVITY_THRESHOLD

\* C5: a successful remove-instance takes the identifier out of the table;
\* while it is out, reset, get-history and remove-instance for it answer 404
\* and leave it out; only a chat puts it back, with an agent never used before
\* and an empty history; and a chat that resumes holding another agent than
\* the one now in the table (a chat of the removed session) does not change
\* the history of any agent in the table.
C5_RemoveThenFresh ==
    [][/\ \A c \in DOMAIN chatbot_instances :
            remove_instance(c) =>
                c \notin DOMAIN chatbot_instances' /\ response'.status = 200
       /\ \A c \in Ids \ DOMAIN chatbot_instances :
            /\ (reset_chat(c) \/ get_chat_history(c) \/ remove_instance(c)) =>
                    response'.status = 404 /\ c \notin DOMAIN chatbot_instances'
            /\ c \in DOMAIN chatbot_instances' =>
                    \E r \in Started :
                        /\ r.client_id = c
                        /\ r.chatbot = Chatbot(chatbot_instances'[c])
                        /\ life[r.chatbot] = "unborn"
                        /\ r.message_history = <<>>
                        /\ messages'[r.chatbot] = <<>>
       /\ \A r \in inflight :
            ChatReturn(r) =>
                \A c \in DOMAIN chatbot_instances :
                    Chatbot(chatbot_instances[c]) # r.chatbot =>
                        messages'[Chatbot(chatbot_instances[c])]
                            = messages[Chatbot(chatbot_instances[c])]]_vars

C5_Witness ==
    \E c \in DOMAIN chatbot_instances : \E a \in Agents :
        /\ life[a] = "removed"
        /\ messages[a] # <<>>
        /\ response.op = "chat" /\ response.status = 200 /\ response.client_id = c
        /\ messages[Chatbot(chatbot_instances[c])] = <<>>
        /\ \E r \in inflight : r.client_id = c /\ r.chatbot = Chatbot(chatbot_instances[c])

\* C6: a chat that was suspended on the model call when a reset of its agent
\* ran (the history was not empty when the call started and is empty when the
\* call ends, so that no chat has completed since the reset) does not make
\* the history non-empty again.
C6_ResetStaysEmpty ==
    [][\A r \in inflight :
          (ChatReturn(r) /\ r.message_history # <<>> /\ messages[r.chatbot] = <<>>) =>
              messages'[r.chatbot] = <<>>]_vars

\* C7: reset of an existing identifier keeps the key set, keeps the agent of
\* the entry, sets last_activity to the time of the reset and leaves every
\* other entry alone.
C7_ResetKeepsSession ==
    [][\A c \in DOMAIN chatbot_instances :
          reset_chat(c) =>
              /\ DOMAIN chatbot_instances' = DOMAIN chatbot_instances
              /\ chatbot_instances'[c] = <<Chatbot(chatbot_instances[c]), now>>
              /\ \A d \in DOMAIN chatbot_instances \ {c} :
                    chatbot_instances'[d] = chatbot_instances[d]
              /\ response'.status = 200]_vars

C7_Witness ==
    /\ response.op = "reset" /\ response.status = 200
    /\ response.client_id \in DOMAIN chatbot_instances
    /\ now > 0
    /\ LastActivity(chatbot_instances[response.client_id]) = now

\* C8: reset, remove-instance and get-history with an identifier that is not a
\* key answer 404 and change neither the table nor any history; a step that
\* adds a key is the first part of a chat request, and adds that request's
\* identifier only.
C8_NotFoundNoCreate ==
    [][/\ \A c \in Ids \ DOMAIN chatbot_instances :
            (reset_chat(c) \/ remove_instance(c) \/ get_chat_history(c)) =>
                /\ response'.status = 404
                /\ response'.client_id = c
                /\ chatbot_instances' = chatbot_instances
                /\ messages' = messages
       /\ ~(DOMAIN chatbot_instances' \subseteq DOMAIN chatbot_instances) =>
            \E r \in Started :
                DOMAIN chatbot_instances' = DOMAIN chatbot_instances \cup {r.client_id}]_vars

C8_Witness ==
    /\ response.status = 404
    /\ response.op \in {"reset", "remove", "history"}
    /\ response.client_id \notin DOMAIN chatbot_instances
    /\ chatbot_instances # <<>>

\* C9: every chat request received gets past session creation: its identifier
\* is a key afterwards, a key it had to insert has last_activity = now, and a
\* successful model call answers with that identifier.
C9_CreationAlwaysSucceeds ==
    [][/\ nchat' = nchat + 1 =>
            \E r \in Started :
                /\ r.client_id \in DOMAIN chatbot_instances'
                /\ r.client_id \notin DOMAIN chatbot_instances =>
                        chatbot_instances'[r.client_id] = <<r.chatbot, now>>
       /\ \A r \in inflight :
            ChatReturn(r) => response'.status = 200 /\ response'.client_id = r.client_id]_vars

\* C10: when the model call of a chat fails the caller gets the error, and
\* the table (the request's entry included, also one the request created) and
\* every message history are as they were before the failure.
C10_FailureKeepsEntry ==
    [][\A r \in inflight :
          ChatFail(r) =>
              /\ response'.op = "chat" /\ response'.status = 500
              /\ response'.client_id = r.client_id
              /\ chatbot_instances' = chatbot_instances
              /\ messages' = messages]_vars

C10_Witness ==
    /\ nchat = 1
    /\ response.op = "chat" /\ response.status = 500
    /\ response.client_id \in DOMAIN chatbot_instances
    /\ messages[Chatbot(chatbot_instances[response.client_id])] = <<>>

\* C11: the reaper leaves its loop only when it is cancelled. A pass that
\* raises an error leaves the task running and the table as it was, the sleep
\* that follows is as long as the one after a good pass, a running task stops
\* running only with a cancellation pending on it, and whenever the task is
\* running, not cancelled and its sleep is over, however the previous passes
\* ended, a good pass can run.
C11_ReaperSurvivesErrors ==
    /\ [][SweepFail => /\ Running(cleanup_task')
                       /\ wake' = now + SWEEP_SLEEP
                       /\ chatbot_instances' = chatbot_instances]_vars
    /\ [][Running(cleanup_task) /\ ~Running(cleanup_task')
              => cleanup_task.must_cancel]_vars
    /\ [](Running(cleanup_task) /\ ~cleanup_task.must_cancel /\ now >= wake
              => ENABLED Sweep)

\* A pass has failed, its sleep is over, and an entry waits to be evicted by
\* the next pass.
C11_Witness ==
    /\ cleanup_task = Task("error_sleep", FALSE, "no")
    /\ now >= wake
    /\ inactive_clients(chatbot_instances, now) # {}

\* C12: the reaper task is created by the startup step and by no other step,
\* once, and from then on there is a task. Shutdown marks the running task
\* cancelled, the cancellation ends it wherever it sleeps (in the error branch
\* too) and changes neither the table nor the histories, the shutdown path
\* ends without an error, it ends only when the task has ended cancelled, and
\* from the cancel() call on the table does not change any more.
C12_ReaperLifeCycle ==
    /\ [][cleanup_task'.pc = "ready" /\ cleanup_task.pc # "ready"
              => cleanup_task = NoTask /\ lifespan = "startup" /\ lifespan' = "serving"]_vars
    /\ [](lifespan # "startup" => cleanup_task # NoTask)
    /\ [][lifespan = "serving" /\ lifespan' # "serving"
              => lifespan' = "awaiting" /\ cleanup_task'.must_cancel]_vars
    /\ [][ReaperCancelled => /\ cleanup_task'.done = "cancelled"
                             /\ ~Running(cleanup_task')
                             /\ chatbot_instances' = chatbot_instances
                             /\ messages' = messages]_vars
    /\ [](cleanup_task.must_cancel => ENABLED ReaperCancelled)
    /\ [](lifespan # "error")
    /\ [](lifespan = "stopped" => cleanup_task.done = "cancelled")
    /\ [][lifespan # "serving" => chatbot_instances' = chatbot_instances]_vars

\* Shutdown has completed after a cancellation that reached the reaper in the
\* sleep of its error branch, and an entry idle for longer than the threshold
\* is still in the table.
C12_Witness ==
    /\ lifespan = "stopped"
    /\ cleanup_task = Task("error_sleep", FALSE, "cancelled")
    /\ inactive_clients(chatbot_instances, now) # {}

\* C13: list-instances reads only. It changes no key, agent, last_activity or
\* history, it reports exactly the keys of the table, and active_instances is
\* the number of entries it reports.
C13_ListIsPureRead ==
    [][get_chatbot_instances =>
          /\ chatbot_instances' = chatbot_instances
          /\ messages' = messages
          /\ life' = life
          /\ DOMAIN response'.body = DOMAIN chatbot_instances
          /\ response'.active_instances = Cardinality(DOMAIN response'.body)]_vars

\* The listing has just reported two entries, one of them with a history and
\* idle for longer than the threshold.
C13_Witness ==
    /\ response.op = "instances"
    /\ response.active_instances = 2
    /\ DOMAIN response.body = DOMAIN chatbot_instances
    /\ \E c \in DOMAIN response.body :
          /\ response.body[c].message_count > 0
          /\ response.body[c].idle_time_seconds > INACTIVITY_THRESHOLD

\* C14: get-history on an identifier that is in the table answers with the
\* history of that entry's agent, sets the entry's last_activity to the time
\* of the call and changes no history, no agent and no other entry. A pass of
\* the reaper keeps every entry whose last_activity is no more than the
\* threshold back, so an entry read at least that often stays.
C14_HistoryTouches ==
    /\ [][\A client_id \in DOMAIN chatbot_instances :
            get_chat_history(client_id) =>
              /\ response'.status = 200
              /\ response'.body = messages[Chatbot(chatbot_instances[client_id])]
              /\ chatbot_instances' =
                   [chatbot_instances EXCEPT
                      ![client_id] = <<Chatbot(chatbot_instances[client_id]), now>>]
              /\ messages' = messages
              /\ life' = life]_vars
    /\ [][Sweep => \A c \in DOMAIN chatbot_instances :
                      LastActivity(chatbot_instances[c]) + INACTIVITY_THRESHOLD >= now
                          => /\ c \in DOMAIN chatbot_instances'
                             /\ chatbot_instances'[c] = chatbot_instances[c]]_vars

\* An entry was last read by get-history, which returned its two messages and
\* stamped it then; the threshold has passed since, the reaper has made its
\* pass at this moment, and the entry is still there.
C14_Witness ==
    /\ response.op = "history" /\ response.status = 200
    /\ Len(response.body) = 2
    /\ response.client_id \in DOMAIN chatbot_instances
    /\ messages[Chatbot(chatbot_instances[response.client_id])] = response.body
    /\ now - LastActivity(chatbot_instances[response.client_id]) = INACTIVITY_THRESHOLD
    /\ wake = now + SWEEP_SLEEP

\* C15: in every step (a chat, reset, get-history, list, remove or reaper
\* pass, or the clock moving on, which it only does forwards) an entry that
\* stays in the table keeps its agent and its last_activity does not decrease,
\* and an entry that enters the table carries the time of its creation; so
\* last_activity is never earlier than the creation time, nor later than now.
C15_ActivityMonotonic ==
    /\ [][now' >= now]_vars
    /\ [][\A c \in DOMAIN chatbot_instances \cap DOMAIN chatbot_instances' :
            /\ Chatbot(chatbot_instances'[c]) = Chatbot(chatbot_instances[c])
            /\ LastActivity(chatbot_instances'[c]) >= LastActivity(chatbot_instances[c])]_vars
    /\ [][\A c \in DOMAIN chatbot_instances' \ DOMAIN chatbot_instances :
            LastActivity(chatbot_instances'[c]) = now]_vars
    /\ [](\A c \in DOMAIN chatbot_instances : LastActivity(chatbot_instances[c]) <= now)

\* A chat request is suspended whose arrival raised the last_activity of an
\* entry that existed already, made by an earlier chat that has been answered.
C15_Witness ==
    \E r \in inflight :
        /\ r.before >= 0
        /\ r.client_id \in DOMAIN chatbot_instances
        /\ r.before < LastActivity(chatbot_instances[r.client_id])
        /\ Len(r.message_history) = 2

\* C16: a chat touches its entry after the agent's reply has been received:
\* when a chat returns a reply and its entry is still in the table, the
\* entry's last_activity is not earlier than the time the reply was received.
C16_TouchFollowsReply ==
    [][\A r \in inflight :
          ChatReturn(r) /\ r.client_id \in DOMAIN chatbot_instances'
              => LastActivity(chatbot_instances'[r.client_id]) >= now]_vars

\* C17: a chat that supplies an identifier which is not in the table puts the
\* new session under an identifier generated for it, one that was not issued
\* before, and works with (and returns) that generated identifier.
C17_UnknownIdGetsFreshId ==
    [][\A supplied \in Ids :
          ChatStart(supplied) /\ supplied \notin DOMAIN chatbot_instances
              => \A r \in Started :
                    /\ r.client_id \in issued' \ issued
                    /\ r.client_id \in DOMAIN chatbot_instances'
                    /\ r.client_id \notin DOMAIN chatbot_instances]_vars

\* C18: when chats for one client overlap and both succeed, no exchange is
\* lost: a chat that returns with a reply leaves in its agent's history every
\* exchange the history held when it resumed, and adds its own.
C18_NoExchangeLost ==
    [][\A r \in inflight :
          ChatReturn(r) =>
              \A k \in 1..MaxChats + 1 :
                  (k = r.n \/ \E i \in DOMAIN messages[r.chatbot] :
                                  messages[r.chatbot][i] = ModelMsg(k))
                      => \E i \in DOMAIN messages'[r.chatbot] :
                            messages'[r.chatbot][i] = ModelMsg(k)]_vars

\* C19: a chat suspended on the model call blocks nothing. While requests are
\* suspended, a reset, remove-instance and get-history for every identifier
\* (the suspended chat's own included), the listing, a further chat and, when
\* its sleep is over, a pass of the reaper can each run, and each of them
\* runs to its end without resuming or dropping a suspended chat; a suspended
\* chat leaves only by resuming itself, and leaves the others suspended.
C19_SuspendedChatBlocksNothing ==
    /\ [](inflight # {} =>
            /\ \A r \in inflight :
                  nchat < MaxChats => ENABLED ChatStart(r.client_id)
            /\ \A client_id \in Ids :
                  /\ ENABLED reset_chat(client_id)
                  /\ ENABLED remove_instance(client_id)
                  /\ ENABLED get_chat_history(client_id)
            /\ ENABLED get_chatbot_instances
            /\ now >= wake => ENABLED Sweep)
    /\ [][inflight' = inflight
              \/ ~(\/ \E client_id \in Ids : \/ reset_chat(client_id)
                                              \/ remove_instance(client_id)
                                              \/ get_chat_history(client_id)
                   \/ get_chatbot_instances
                   \/ Sweep)]_vars
    /\ [][inflight \subseteq inflight'
              \/ \E r \in inflight : /\ inflight' = inflight \ {r}
                                     /\ ChatReturn(r) \/ ChatFail(r)]_vars

\* A chat is suspended that took a history of two messages with it; since
\* then a reset has emptied its agent's history and a pass of the reaper has
\* evicted its entry.
C19_Witness ==
    /\ response.op = "reset" /\ response.status = 200
    /\ \E r \in inflight :
          /\ r.client_id = response.client_id
          /\ Len(r.message_history) = 2
          /\ messages[r.chatbot] = <<>>
          /\ life[r.chatbot] = "evicted"

\* C20: for every entry the listing reports, idle_time_seconds is the time of
\* the call minus the entry's last_activity, will_expire_in is the threshold
\* minus the idle time where that is positive and 0 otherwise (so it is never
\* negative and is 0 exactly when the idle time has reached the threshold),
\* and message_count is the length of the history of the entry's agent.
C20_ListFigures ==
    [][get_chatbot_instances =>
          \A c \in DOMAIN response'.body :
              LET info == response'.body[c]
                  idle == now - LastActivity(chatbot_instances[c])
              IN  /\ info.idle_time_seconds = idle
                  /\ info.will_expire_in >= 0
                  /\ info.will_expire_in = 0 <=> idle >= INACTIVITY_THRESHOLD
                  /\ idle < INACTIVITY_THRESHOLD
                        => info.will_expire_in = INACTIVITY_THRESHOLD - idle
                  /\ info.message_count = Len(messages[Chatbot(chatbot_instances[c])])]_vars

\* The listing has reported an entry past the threshold with nothing left and
\* two messages, next to an entry made this moment with the whole threshold
\* left and no message.
C20_Witness ==
    /\ response.op = "instances"
    /\ \E c, d \in DOMAIN response.body :
          /\ response.body[c].idle_time_seconds = INACTIVITY_THRESHOLD + 1
          /\ response.body[c].will_expire_in = 0
          /\ response.body[c].message_count = 2
          /\ response.body[d].idle_time_seconds = 0
          /\ response.body[d].will_expire_in = INACTIVITY_THRESHOLD
          /\ response.body[d].message_count = 0

\* C26: in every reachable state every key of the table is bound to an agent
\* that was constructed and is live, and two different keys are never bound
\* to the same agent.
C26_AgentsOwnedOnce ==
    /\ \A c \in DOMAIN chatbot_instances :
          /\ Chatbot(chatbot_instances[c]) \in Born
          /\ life[Chatbot(chatbot_instances[c])] = "live"
    /\ \A c, d \in DOMAIN chatbot_instances :
          Chatbot(chatbot_instances[c]) = Chatbot(chatbot_instances[d]) => c = d

\* Two sessions are in the table, each with an agent of its own, one of them
\* with an answered chat in its history.
C26_Witness ==
    /\ Cardinality(DOMAIN chatbot_instances) = 2
    /\ Cardinality({Chatbot(chatbot_instances[c]) : c \in DOMAIN chatbot_instances}) = 2
    /\ \E c \in DOMAIN chatbot_instances : Len(messages[Chatbot(chatbot_instances[c])]) = 2

\* Times at which an entry may have been stamped, with the pass that follows
\* the threshold by at most one sleep still within the horizon.
StampsInTime ==
    {t \in 0..Horizon : t + INACTIVITY_THRESHOLD + SWEEP_SLEEP <= Horizon}

C28_SweepIsAtomic ==
    [][Sweep =>
          LET selected == inactive_clients(chatbot_instances, now)
          IN  /\ selected \subseteq DOMAIN chatbot_instances
              /\ \A c \in selected :
                    now - LastActivity(chatbot_instances[c]) > INACTIVITY_THRESHOLD
              /\ DOMAIN chatbot_instances' = DOMAIN chatbot_instances \ selected
              /\ \A c \in DOMAIN chatbot_instances' :
                    chatbot_instances'[c] = chatbot_instances[c]
              /\ \A a \in Agents :
                    life'[a] # life[a] =>
                        /\ life'[a] = "evicted"
                        /\ \E c \in selected : Chatbot(chatbot_instances[c]) = a
              /\ inflight' = inflight /\ nchat' = nchat
              /\ messages' = messages /\ response' = response]_vars

\* One pass has evicted two sessions, one of them with a chat still suspended
\* on the model call.
C28_Witness ==
    /\ chatbot_instances = <<>>
    /\ Cardinality({a \in Agents : life[a] = "evicted"}) = 2
    /\ wake = now + SWEEP_SLEEP
    /\ \E r \in inflight : life[r.chatbot] = "evicted"

\* C29: a request in flight does not undo a removal. When a chat resumes with
\* its reply after its entry was deleted by remove-instance or by the reaper
\* (whether or not the identifier has been given a new session since), it
\* answers with the reply and its client identifier, and the table is left
\* exactly as it was: the identifier is not put back and no entry changes.
\* A touch of an identifier that is not in the table changes nothing.
C29_RemovalIsNotUndone ==
    /\ [][\A r \in inflight :
            ChatReturn(r) /\ life[r.chatbot] \in {"removed", "evicted"} =>
                /\ response'.status = 200
                /\ response'.client_id = r.client_id
                /\ response'.body = <<ModelMsg(r.n)>>
                /\ chatbot_instances' = chatbot_instances
                /\ life' = life]_vars
    /\ [](\A client_id \in Ids \ DOMAIN chatbot_instances :
              update_activity(chatbot_instances, client_id, now) = chatbot_instances)

\* A chat has just answered whose session was removed by remove-instance
\* while it was suspended; its exchange went to the agent that left the
\* table, and the identifier is not in the table.
C29_Witness ==
    /\ response.op = "chat" /\ response.status = 200
    /\ response.client_id \notin DOMAIN chatbot_instances
    /\ \E a \in Agents :
          /\ life[a] = "removed"
          /\ Len(messages[a]) = 2
          /\ messages[a][2] = response.body[1]

\* C23: discover_agents returns exactly the agent modules of the directory:
\* base_agent, the module of the common base class, is never a key, and the
\* number of keys is the number of agent modules that were imported.
C23_OnlyAgentModules ==
    cli.pc = "discovered" =>
        /\ "base_agent" \notin DOMAIN cli.found.agents
        /\ Cardinality(DOMAIN cli.found.agents) =
              Cardinality({f \in agent_files(cli.dir) :
                              Imports(cli.dir, f) /\ module_name(f) # "base_agent"})

NonNumeric(line) == \E i \in 1..Len(line) : line[i] \notin Digits \cup {"-", "+", " "}

\* What a turn of get_selection_from_list does with the line it reads.
SelectionTurn ==
    LET n == int(cli'.line)
    IN  /\ NonNumeric(cli'.line) =>
            /\ cli'.pc = "prompt"
            /\ cli'.printed = "Invalid input. Please enter a number."
        /\ ~n.ok =>
            /\ cli'.pc = "prompt"
            /\ cli'.printed = "Invalid input. Please enter a number."
        /\ n.ok /\ n.value \notin 1..Len(cli.options) =>
            /\ cli'.pc = "prompt"
            /\ cli'.printed = "Invalid choice. Please enter a number from the list."
        /\ n.ok /\ n.value \in 1..Len(cli.options) =>
            /\ cli'.pc = "returned"
            /\ cli'.result = cli.options[n.value]

\* C25 (as stated): for a non-empty list, every non-numeric or out-of-range
\* input is rejected with a message and asked again, the first input n in
\* 1..len(options) returns options[n-1], no value outside the list is ever
\* returned, and the call ends exactly when such a valid input occurs.
C25_EndsExactlyOnValidInput ==
    [][cli.pc = "prompt" /\ cli.options # <<>> /\ cli' # cli =>
          /\ cli'.pc # "raised" => SelectionTurn
          /\ cli'.pc # "prompt" =>
                /\ int(cli'.line).ok
                /\ int(cli'.line).value \in 1..Len(cli.options)
                /\ cli'.result = cli.options[int(cli'.line).value]]_vars

\* C25 (amended): the same, with "returns" for "ends": the call returns
\* exactly when a valid input occurs, and the only other way it ends is an
\* exception raised by input() itself (end of input, keyboard interrupt),
\* which returns no value.
C25_ReturnsExactlyOnValidInput ==
    /\ [][cli.pc = "prompt" /\ cli.options # <<>> /\ cli' # cli =>
              /\ cli'.pc # "raised" => SelectionTurn
              /\ cli'.pc = "raised" =>
                    /\ cli'.printed \in {"EOFError", "KeyboardInterrupt"}
                    /\ cli'.result = None]_vars
    /\ [](cli.pc \in {"prompt", "returned", "raised"} /\ cli.options # <<>> =>
              /\ cli.pc = "returned" <=> cli.result # None
              /\ cli.result # None => \E i \in 1..Len(cli.options) : cli.options[i] = cli.result)
    /\ [][cli.pc \in {"returned", "raised"} => cli' = cli]_vars

\* A letter and a number out of range were refused, then " 2" chose the
\* second of two options.
C25_Witness ==
    /\ cli.pc = "returned"
    /\ cli.reads = 3
    /\ cli.line = <<" ", "2">>
    /\ cli.result = "Exit"
    /\ Len(cli.options) = 2

\* The line of a turn says exit or quit / reset or clear, trimmed and in any
\* case, spelled out character by character.
SaysOneOf(line, words) ==
    \E w \in words, a, b \in 0..Len(line) :
        /\ a + Len(w) + b = Len(line)
        /\ \A i \in 1..a : line[i] = " "
        /\ \A i \in 1..b : line[Len(line) + 1 - i] = " "
        /\ \A i \in 1..Len(w) : line[a + i] \in {w[i][1], w[i][2]}

SaysExit(line) ==
    SaysOneOf(line, {<<<<"e", "E">>, <<"x", "X">>, <<"i", "I">>, <<"t", "T">>>>,
                     <<<<"q", "Q">>, <<"u", "U">>, <<"i", "I">>, <<"t", "T">>>>})

SaysReset(line) ==
    SaysOneOf(line, {<<<<"r", "R">>, <<"e", "E">>, <<"s", "S">>, <<"e", "E">>, <<"t", "T">>>>,
                     <<<<"c", "C">>, <<"l", "L">>, <<"e", "E">>, <<"a", "A">>, <<"r", "R">>>>})

\* C30: the chat loop ends only on exit or quit (trimmed, in any case) or on
\* end of input, and then without calling the agent; reset or clear does not
\* call the agent and the loop goes on; every other input is forwarded to the
\* agent exactly once; a keyboard interrupt discards the turn and the loop
\* goes on.
C30_LoopEndsOnlyOnExit ==
    [][cli.pc = "chat" /\ cli' # cli =>
          /\ cli'.pc # "chat" =>
                /\ cli'.event = "EOFError" \/ (cli'.event = "line" /\ SaysExit(cli'.line))
                /\ cli'.calls = cli.calls
          /\ cli'.event = "EOFError" \/ (cli'.event = "line" /\ SaysExit(cli'.line)) =>
                cli'.pc = "ended" /\ cli'.calls = cli.calls
          /\ cli'.event = "line" /\ SaysReset(cli'.line) =>
                cli'.pc = "chat" /\ cli'.calls = cli.calls
          /\ cli'.event = "line" /\ ~SaysExit(cli'.line) /\ ~SaysReset(cli'.line) =>
                cli'.calls = cli.calls + 1 /\ cli'.sent = strip(cli'.line)
          /\ cli'.event = "KeyboardInterrupt" => cli'.pc = "chat"]_vars

\* The command line of the run as its parser reads it, and what it asks for.
RunArgs ==
    IF cli.program = "agent_term" THEN parse_args(cli.argv, Namespace_agent_term)
    ELSE parse_known_args(cli.argv, Namespace_main)
MenuAsked == RunArgs.status = "ok" /\ RunArgs.menu
AgentNamed ==
    IF RunArgs.status # "ok" THEN None
    ELSE IF cli.program = "agent_term" THEN RunArgs.agent ELSE RunArgs.agent_name
QueryGiven ==
    IF RunArgs.status = "ok" /\ cli.program = "agent_term" THEN RunArgs.input_query ELSE None

\* The calls main() itself has made, and all calls of one function.
CallsByMain == SelectSeq(cli.calls, LAMBDA c : c.by = "main")
CallsOf(fn) == SelectSeq(cli.calls, LAMBDA c : c.fn = fn)

\* The dispatch c follows the precedence menu, named agent, default agent.
ByPrecedence(c) ==
    IF MenuAsked THEN c.fn = "show_menu"
    ELSE IF AgentNamed # None THEN c.fn = "run_agent" /\ c.agent_name = AgentNamed
    ELSE \/ /\ c.fn = "run_agent"
            /\ c.agent_name = "BasicChatbotAgent"
            /\ QueryGiven = None => ~Truthy(c.agent_args)
         \/ /\ c.fn = "run_interactive_chat"
            /\ c.agent_name = None
            /\ QueryGiven = None

\* C21 (as stated): every run makes exactly one dispatch, by precedence: the
\* menu (and then no agent is run), else the named agent, else the default
\* agent BasicChatbotAgent; show_menu and run_agent are never both invoked in
\* one run.
C21_ExactlyOneDispatch ==
    cli.pc # "start" =>
        /\ Len(CallsByMain) = 1
        /\ ByPrecedence(CallsByMain[1])
        /\ CallsOf("show_menu") = <<>> \/ CallsOf("run_agent") = <<>>

\* The run can dispatch: the command line parses and does not ask for help,
\* config.json loads and, for agent_term.py, some agent module imports.
CanDispatch ==
    /\ RunArgs.status = "ok"
    /\ cli.program = "main" => ~RunArgs.help
    /\ cli.config = "ok"
    /\ cli.program = "agent_term" =>
          \E f \in cli.dir.files : f[2] = "py" /\ f \notin cli.dir.broken

\* C21 (amended): main() makes at most one dispatch, and exactly one when the
\* run can dispatch, by the precedence menu, named agent, default agent; it
\* never calls both show_menu and run_agent. An agent is run in a run of the
\* menu only by show_menu of main.py, on the user's choice.
C21_AtMostOneDispatch ==
    cli.pc # "start" =>
        /\ Len(CallsByMain) <= 1
        /\ Len(CallsByMain) = 1 <=> CanDispatch
        /\ Len(CallsByMain) = 1 => cli.calls[1].by = "main" /\ ByPrecedence(cli.calls[1])
        /\ cli.program = "agent_term" /\ CanDispatch /\ ~MenuAsked /\ AgentNamed = None
              /\ QueryGiven = None => cli.calls[1].fn = "run_interactive_chat"
        /\ Len(CallsOf("show_menu")) <= 1
        /\ \A i \in 1..Len(cli.calls) :
              /\ cli.calls[i].by = "show_menu" =>
                    cli.program = "main" /\ cli.calls[i].fn = "run_agent" /\ MenuAsked
              /\ cli.calls[i].fn = "run_agent" /\ MenuAsked => cli.calls[i].by = "show_menu"

\* `agent_term.py --menu hi`: the menu was shown once, two entries were
\* chosen, the run is over and no agent was run.
C21_Witness ==
    /\ cli.pc = "done"
    /\ cli.program = "agent_term"
    /\ cli.argv = <<"--menu", "hi">>
    /\ cli.picks = 2
    /\ cli.calls = <<Call("show_menu", "main", None, NoArgs)>>

\* C22: a run of agent_term.py with a query invokes run_agent once, for the
\* named agent or else BasicChatbotAgent, with a list holding exactly the
\* query, and the agent receives the whole query.
C22_WholeQueryReachesAgent ==
    /\ cli.pc \in {"done", "chat"}
    /\ cli.program = "agent_term"
    /\ CanDispatch /\ ~MenuAsked /\ QueryGiven # None
    => /\ Len(CallsOf("run_agent")) = 1
       /\ CallsOf("run_agent")[1].agent_name =
              IF AgentNamed # None THEN AgentNamed ELSE "BasicChatbotAgent"
       /\ CallsOf("run_agent")[1].agent_args = ListArg(<<QueryGiven>>)
       /\ cli.received.kind = "str" => cli.received.text = Spelling[QueryGiven]

====
